---- MODULE Spec2Model ----
(***************************************************************************)
(* Model of src/main.py: the validator-rewards reconciliation driver       *)
(* (main), the two API clients (get_current_solana_epoch, get_epoch), the  *)
(* store's existence check (check_epoch_exists) and the metric derivation  *)
(* done inside get_epoch (round_9 and the revenue formulas).               *)
(*                                                                         *)
(* Numbers.  The program computes with Python floats.  The model computes  *)
(* with exact decimals: a number is a record [w, n, s] that stands for     *)
(*     w + (n + s / SubDen) * 10^-9                                        *)
(* with 0 <= n < NANO and 0 <= s < SubDen, so that the ninth decimal (the  *)
(* digit round_9 rounds at) and the digits below it are both represented,  *)
(* and whole parts as large as 2 * 10^9 still fit TLC's integers.          *)
(***************************************************************************)
EXTENDS Integers, Sequences, FiniteSets, TLC

\* ------------------------------------------------------------------------
\* Program constants
\* ------------------------------------------------------------------------

\* main: start_epoch = 600
start_epoch == 600

\* round_9: the scale 1000000000 of "round(val * 1000000000) / 1000000000"
NANO == 1000000000

\* get_epoch: the divisor of "total_inflation_reward * commission_bps / 10000"
BPS_DIVISOR == 10000

\* get_epoch: the factor of "(validator.get("commission", 0) or 0) * 100"
COMMISSION_FACTOR == 100

\* Resolution of the model's numbers below the ninth decimal: one tenth of
\* 10^-9 divided by BPS_DIVISOR is still exact.
SubDen == 10 * BPS_DIVISOR

\* ------------------------------------------------------------------------
\* Bounds of the model
\* ------------------------------------------------------------------------

\* Largest current epoch the epoch oracle reports is start_epoch + MaxAhead.
MaxAhead == 2

\* Number of invocations of main() in one behaviour.
MaxRuns == 2

\* Number of faults of the environment in one behaviour: queries of
\* check_epoch_exists that raise, other store statements that raise, and
\* interruptions of the process.
MaxFaults == 2

\* Longest rewards-API response (number of validator entries).
MaxRespLen == 2

\* Largest count of 10^-9 units in a small raw amount of the derivation inputs.
MaxNano == 1

\* ------------------------------------------------------------------------
\* Exact decimal arithmetic standing for Python's float arithmetic
\* ------------------------------------------------------------------------

Num(w, n, s) == [w |-> w, n |-> n, s |-> s]

Zero == Num(0, 0, 0)

\* Carry propagation: any (w, n, s) to the canonical form.
Norm(w, n, s) ==
    LET s2 == s % SubDen
        n1 == n + (s \div SubDen)
        n2 == n1 % NANO
    IN  Num(w + (n1 \div NANO), n2, s2)

\* a + b
Add(a, b) == Norm(a.w + b.w, a.n + b.n, a.s + b.s)

\* a - b
Sub(a, b) == Norm(a.w - b.w, a.n - b.n, a.s - b.s)

\* x * k / d for integers k >= 0 and d = BPS_DIVISOR, exact whenever
\* x.s is a multiple of d (every input of the model is).
MulDiv(x, k, d) ==
    LET rw   == (x.w % d) * k
        rn   == (x.n % d) * k
        whole == (x.w \div d) * k + (rw \div d)
        nano  == (rw % d) * (NANO \div d) + (x.n \div d) * k + (rn \div d)
        sub   == (rn % d) * (SubDen \div d) + ((x.s * k) \div d)
    IN  Norm(whole, nano, sub)

\* Python's round(): to the nearest integer, ties to the even one.  Here the
\* integer is the count of 10^-9 units (w * NANO + n, whose parity is n's).
round_9_tie(val) ==
    IF 2 * val.s > SubDen THEN 1
    ELSE IF 2 * val.s < SubDen THEN 0
    ELSE IF val.n % 2 = 1 THEN 1 ELSE 0

\* def round_9(val): return round(val * 1000000000) / 1000000000
round_9(val) == Norm(val.w, val.n + round_9_tie(val), 0)

\* ------------------------------------------------------------------------
\* JSON values of the upstream payload.  A field of a validator entry is a
\* record [t, v]: t = "num" with the number v, t = "null" for a JSON null,
\* t = "missing" for a key the entry does not have (v is then a filler of
\* the field's type).  Integer fields carry an integer v, decimal fields a
\* number of the form Num(w, n, s), the name a string.
\* ------------------------------------------------------------------------

JInt(i) == [t |-> "num", v |-> i]
JNullI == [t |-> "null", v |-> 0]
JMissingI == [t |-> "missing", v |-> 0]

JNum(x) == [t |-> "num", v |-> x]
JNullN == [t |-> "null", v |-> Zero]
JMissingN == [t |-> "missing", v |-> Zero]

JStr(x) == [t |-> "str", v |-> x]
JMissingS == [t |-> "missing", v |-> ""]

\* dict.get(key, default): the default only when the key is missing.
Get(j, default) == IF j.t = "missing" THEN default ELSE j

\* "x or 0" on an integer field: None and 0 are falsy.
OrZeroI(j) == IF j.t = "null" THEN 0 ELSE j.v

\* "x or 0" on a decimal field: None and 0.0 are falsy.
OrZeroN(j) == IF j.t = "null" THEN Zero ELSE j.v

\* ------------------------------------------------------------------------
\* get_epoch: the record built from the matching validator entry
\* ------------------------------------------------------------------------

\* commission_bps_of with a fault: the commission taken as basis points as is.
commission_bps_unscaled(validator) == OrZeroI(Get(validator.commission, JInt(0)))

\* commission_bps = (validator.get("commission", 0) or 0) * 100
commission_bps_of(validator) ==
    OrZeroI(Get(validator.commission, JInt(0))) * COMMISSION_FACTOR

\* inflation_rewards = round_9(total_inflation_reward * commission_bps / 10000)
inflation_rewards_of(validator) ==
    round_9(MulDiv(OrZeroN(Get(validator.total_inflation_reward, JNum(Zero))),
                   commission_bps_of(validator), BPS_DIVISOR))

\* net_earnings_of with a fault: the vote cost is not subtracted.
net_earnings_without_vote_cost(validator) ==
    round_9(Add(Add(OrZeroN(Get(validator.rewards, JNum(Zero))),
                    OrZeroN(Get(validator.mev_to_validator, JNum(Zero)))),
                inflation_rewards_of(validator)))

\* net_earnings = round_9(rewards + mev_to_validator + inflation_rewards - vote_cost)
net_earnings_of(validator) ==
    round_9(Sub(Add(Add(OrZeroN(Get(validator.rewards, JNum(Zero))),
                        OrZeroN(Get(validator.mev_to_validator, JNum(Zero)))),
                    inflation_rewards_of(validator)),
                OrZeroN(Get(validator.vote_cost, JNum(Zero)))))

\* The dictionary returned for the matching entry (lines 49-85).
get_epoch_record(validator, ep) ==
    LET rewards_raw == OrZeroN(Get(validator.rewards, JNum(Zero)))
        mev_raw == OrZeroN(Get(validator.mev_to_validator, JNum(Zero)))
        vote_cost_raw == OrZeroN(Get(validator.vote_cost, JNum(Zero)))
        inflation == inflation_rewards_of(validator)
    IN  [ epoch |-> ep,
          name |-> Get(validator.name, JStr("")),
          identity |-> validator.identity_pubkey,
          activated_stake |-> OrZeroI(Get(validator.activated_stake, JInt(0))),
          block_rewards |-> round_9(rewards_raw),
          mev_to_validator |-> round_9(mev_raw),
          inflation_rewards |-> inflation,
          base_revenue |-> round_9(Add(rewards_raw, inflation)),
          total_revenue |-> round_9(Add(Add(rewards_raw, mev_raw), inflation)),
          vote_cost |-> round_9(vote_cost_raw),
          net_earnings |-> net_earnings_of(validator),
          leader_slots |-> Get(validator.leader_slots, JInt(0)),
          skip_rate |-> Get(validator.skip_rate, JNum(Zero)),
          votes_cast |-> Get(validator.votes_cast, JInt(0)),
          stake_percentage |-> Get(validator.stake_percentage, JNum(Zero)),
          commission_bps |-> commission_bps_of(validator),
          mev_commission_bps |-> OrZeroI(Get(validator.mev_commission, JInt(0))) ]

\* Filler for "no record": the record of an entry with every field missing.
NoValidator ==
    [ identity_pubkey |-> "", name |-> JMissingS,
      commission |-> JMissingI, mev_commission |-> JMissingI,
      rewards |-> JMissingN, mev_to_validator |-> JMissingN,
      total_inflation_reward |-> JMissingN, vote_cost |-> JMissingN,
      activated_stake |-> JMissingI, leader_slots |-> JMissingI,
      skip_rate |-> JMissingN, votes_cast |-> JMissingI,
      stake_percentage |-> JMissingN ]

NoRecord == get_epoch_record(NoValidator, 0)

\* Results of get_epoch: a dictionary, None, or an exception that leaves it.
Returned(rec) == [t |-> "record", v |-> rec]
ReturnedNone == [t |-> "none", v |-> NoRecord]
Raised == [t |-> "raise", v |-> NoRecord]

\* FirstMatch with a fault: the first entry is taken whatever its identity.
FirstEntry(data, id) == IF Len(data) > 0 THEN 1 ELSE 0

\* FirstMatch with a fault: the last matching entry is taken.
LastMatch(data, id) ==
    IF \E i \in 1..Len(data) : data[i].identity_pubkey = id
    THEN CHOOSE i \in 1..Len(data) :
            /\ data[i].identity_pubkey = id
            /\ \A j \in (i + 1)..Len(data) : data[j].identity_pubkey # id
    ELSE 0

\* "for validator in data: if validator.get("identity_pubkey") == identity":
\* the index of the first matching entry, 0 when there is none.
FirstMatch(data, id) ==
    IF \E i \in 1..Len(data) : data[i].identity_pubkey = id
    THEN CHOOSE i \in 1..Len(data) :
            /\ data[i].identity_pubkey = id
            /\ \A j \in 1..(i - 1) : data[j].identity_pubkey # id
    ELSE 0

\* Whether the exception of this response kind is a requests.RequestException,
\* the only class get_epoch catches (line 89).  The connection failure,
\* raise_for_status's HTTPError and the JSONDecodeError that response.json()
\* raises on a body that is no JSON are.  The AttributeError or TypeError
\* from iterating a payload that is JSON but no list of objects
\* ("malformed") is not.
Caught(kind) == kind \in {"network_error", "http_error", "bad_json"}

\* def get_epoch(identity, epoch) on the upstream's response.
get_epoch(id, ep, response) ==
    IF response.kind = "list"
    THEN LET i == FirstMatch(response.data, id)
         IN  IF i = 0 THEN ReturnedNone
             ELSE Returned(get_epoch_record(response.data[i], ep))
    ELSE IF Caught(response.kind)
         THEN ReturnedNone
         ELSE Raised

\* ------------------------------------------------------------------------
\* get_current_solana_epoch
\* ------------------------------------------------------------------------

\* What the chain RPC call can do: fail on the network, answer with a status
\* other than 200, answer with a body that is no JSON (response.json() then
\* raises requests.JSONDecodeError, a RequestException), answer with JSON
\* that has no result.epoch, answer with "result": null (the second .get is
\* then called on None), or answer with an epoch.
OracleOutcomes ==
    {[kind |-> k, epoch |-> 0] :
        k \in {"network_error", "non_200", "bad_json", "missing_epoch", "null_result"}}
    \cup {[kind |-> "epoch", epoch |-> e] :
            e \in {0} \cup (start_epoch .. start_epoch + MaxAhead)}

OracleInt(e) == [t |-> "int", v |-> e]
OracleNone == [t |-> "none", v |-> 0]
OracleRaised == [t |-> "raise", v |-> 0]

\* def get_current_solana_epoch(): the epoch, None, or an exception that the
\* function does not catch (it catches requests.RequestException only).
get_current_solana_epoch(outcome) ==
    CASE outcome.kind = "epoch" -> OracleInt(outcome.epoch)
      [] outcome.kind \in {"network_error", "non_200", "bad_json", "missing_epoch"} ->
            OracleNone
      [] outcome.kind = "null_result" -> OracleRaised

\* "if not end_epoch: raise ...": None and 0 are falsy.
NotEndEpoch(result) == result.t = "none" \/ (result.t = "int" /\ result.v = 0)

\* EndEpoch with a fault: the decrement of line 149 left out.
EndEpochNotDecremented(current) == current

\* "end_epoch -= 1": the last epoch of the processed range.
EndEpoch(current) == current - 1

\* ------------------------------------------------------------------------
\* The store: two tables without keys, rows in insertion order
\* ------------------------------------------------------------------------

Identities == {"A", "B"}

MissingRow(ep, id) == [epoch |-> ep, identity |-> id]

\* Number of rows of a table for the pair (ep, id).
Count(table, ep, id) ==
    Cardinality({i \in 1..Len(table) : table[i].epoch = ep /\ table[i].identity = id})

\* The query of check_epoch_exists when it succeeds: a row for the pair in
\* "rewards UNION missing_rewards".
Resolved(rw, ms, id, ep) == Count(rw, ep, id) > 0 \/ Count(ms, ep, id) > 0

\* check_epoch_exists with a fault: the failed query is answered "exists".
check_epoch_exists_true_on_failure(rw, ms, id, ep, query_fails) ==
    query_fails \/ Resolved(rw, ms, id, ep)

\* check_epoch_exists with a fault: only the rewards table is consulted.
check_epoch_exists_rewards_only(rw, ms, id, ep, query_fails) ==
    ~query_fails /\ Count(rw, ep, id) > 0

\* check_epoch_exists with a fault: the identity is left out of the WHERE
\* clause, a row of any identity for the epoch counts.
check_epoch_exists_any_identity(rw, ms, id, ep, query_fails) ==
    /\ ~query_fails
    /\ \/ \E i \in 1..Len(rw) : rw[i].epoch = ep
       \/ \E i \in 1..Len(ms) : ms[i].epoch = ep

\* def check_epoch_exists(conn, identity, epoch): False when the query raises.
check_epoch_exists(rw, ms, id, ep, query_fails) ==
    IF query_fails THEN FALSE ELSE Resolved(rw, ms, id, ep)

\* SelectIdentity with a fault: the WHERE clause left out.
SelectEveryIdentity(rw, id) == rw

\* "SELECT * FROM rewards where identity = ?": the rows of one identity, in
\* table order.
SelectIdentity(rw, id) == SelectSeq(rw, LAMBDA row : row.identity = id)

\* "ORDER BY epoch ASC": every ordering of the rows at the indexes idx that is
\* ascending in epoch; rows of equal epoch come in any order.
RECURSIVE OrderByEpoch(_, _)
OrderByEpoch(rows, idx) ==
    IF idx = {} THEN {<<>>}
    ELSE LET least == {i \in idx : \A j \in idx : rows[i].epoch <= rows[j].epoch}
         IN  UNION {{<<rows[i]>> \o rest : rest \in OrderByEpoch(rows, idx \ {i})} :
                        i \in least}

\* The COPY statement of lines 194-197: the possible contents of the file.
ExportRows(rw, id) ==
    LET rows == SelectIdentity(rw, id) IN OrderByEpoch(rows, 1..Len(rows))

\* ------------------------------------------------------------------------
\* The rewards API as the driver sees it
\* ------------------------------------------------------------------------

\* A validator entry of the payload.
Validator(pubkey, commission, rewards_, mev, tir, vote_cost) ==
    [ identity_pubkey |-> pubkey, name |-> JStr("v"),
      commission |-> commission, mev_commission |-> JInt(800),
      rewards |-> rewards_, mev_to_validator |-> mev,
      total_inflation_reward |-> tir, vote_cost |-> vote_cost,
      activated_stake |-> JInt(7), leader_slots |-> JInt(4),
      skip_rate |-> JNum(Zero), votes_cast |-> JInt(9),
      stake_percentage |-> JNum(Zero) ]

\* The entries the driver's responses are made of: two payloads of identity
\* "A", one of identity "B".
DriverValidators ==
    {Validator(id, JInt(5), JNum(Num(r, 0, 0)), JNum(Zero), JNum(Num(100, 0, 0)),
               JNum(Zero)) : id \in Identities, r \in {1, 2}}
    \ {Validator("B", JInt(5), JNum(Num(2, 0, 0)), JNum(Zero), JNum(Num(100, 0, 0)),
                  JNum(Zero))}

SeqsUpTo(S, n) == UNION {[1..k -> S] : k \in 0..n}

\* What the rewards API call can do: fail on the network, answer with an
\* error status, with a body that is no JSON, with JSON that is no list of
\* objects ("malformed"), or with a list of validator entries.
Responses ==
    {[kind |-> k, data |-> <<>>] :
        k \in {"network_error", "http_error", "bad_json", "malformed"}}
    \cup {[kind |-> "list", data |-> d] : d \in SeqsUpTo(DriverValidators, MaxRespLen)}

\* ------------------------------------------------------------------------
\* State
\* ------------------------------------------------------------------------

VARIABLES
    rewards,            \* table rewards of data.duckdb: rows in insertion order
    missing_rewards,    \* table missing_rewards of data.duckdb
    csv,                \* the files "<identity>.csv": [written, rows]
    faults,             \* number of store faults and interruptions so far
    pc,                 \* position of the process in main()
    identity,           \* main: identity (sys.argv[1])
    end_epoch,          \* main: end_epoch after the decrement
    epoch,              \* main: the loop variable
    new_records,        \* main: new_records
    epoch_data,         \* main: epoch_data, the result of get_epoch
    conn,               \* the store handle: "unopened", "open" or "closed"
    run,                \* number of invocations of main() so far
    oracle,             \* what get_current_solana_epoch gave this run
    examined,           \* epochs this run passed to check_epoch_exists, in order
    requests,           \* rewards-API requests of this run, in order:
                        \* [epoch, response, result, resolved, lookup_failed,
                        \*  slept]
    handled,            \* number of requests whose result lines 164-171 handled
    lookup_failed,      \* whether the last query of check_epoch_exists raised
    start,              \* row counts of the two tables when this run began
    exported,           \* whether this run executed the COPY statement
    abort_cause,        \* why this run left main() with an exception, if it did
    prev,               \* the run before this one: identity, oracle, completed, csv,
                        \* interrupted, unwritten (epochs of its lost batch)
    payload,            \* entries of the response whose result is being handled
    raw,                \* derivation check: the validator entry of the payload
    derived             \* derivation check: what get_epoch returned for it

store_vars == <<rewards, missing_rewards, csv>>
proc_vars == <<pc, identity, end_epoch, epoch, new_records, epoch_data, conn>>
hist_vars == <<run, oracle, examined, requests, handled, lookup_failed, start,
               exported, abort_cause, prev, payload>>
derive_vars == <<raw, derived>>
vars == <<store_vars, faults, proc_vars, hist_vars,
          derive_vars>>

NoCsv == [written |-> FALSE, rows |-> <<>>]

NotRunning == {"idle", "done", "aborted", "killed"}

\* The state before the first invocation: an empty store, no file.
InitDriver ==
    /\ rewards = <<>>
    /\ missing_rewards = <<>>
    /\ csv = [id \in Identities |-> NoCsv]
    /\ faults = 0
    /\ pc = "idle"
    /\ identity = "A"
    /\ end_epoch = 0
    /\ epoch = 0
    /\ new_records = <<>>
    /\ epoch_data = ReturnedNone
    /\ conn = "unopened"
    /\ run = 0
    /\ oracle = OracleNone
    /\ examined = <<>>
    /\ requests = <<>>
    /\ handled = 0
    /\ lookup_failed = FALSE
    /\ start = [rewards |-> 0, missing |-> 0]
    /\ exported = FALSE
    /\ abort_cause = "none"
    /\ prev = [identity |-> "A", oracle |-> OracleNone, completed |-> FALSE,
               csv |-> NoCsv, interrupted |-> FALSE, unwritten |-> {}]
    /\ payload = <<>>

Init ==
    /\ InitDriver
    /\ raw = NoValidator
    /\ derived = ReturnedNone

\* ------------------------------------------------------------------------
\* main()
\* ------------------------------------------------------------------------

\* Lines 141-151: the argument, the epoch oracle, the fatal check, the
\* decrement and duckdb.connect.  The raise of line 146 (or the exception
\* that left get_current_solana_epoch) ends the process before the store
\* is opened.
Main(id, outcome) ==
    /\ pc \in NotRunning
    /\ run < MaxRuns
    /\ LET result == get_current_solana_epoch(outcome)
           fatal == result.t = "raise" \/ NotEndEpoch(result)
       IN  /\ oracle' = result
           /\ pc' = IF fatal THEN "aborted" ELSE "create"
           /\ abort_cause' = IF fatal THEN "oracle" ELSE "none"
           /\ conn' = IF fatal THEN "unopened" ELSE "open"
           /\ end_epoch' = IF fatal THEN 0 ELSE EndEpoch(result.v)
    /\ run' = run + 1
    /\ identity' = id
    /\ epoch' = 0
    /\ new_records' = <<>>
    /\ epoch_data' = ReturnedNone
    /\ examined' = <<>>
    /\ requests' = <<>>
    /\ handled' = 0
    /\ lookup_failed' = FALSE
    /\ start' = [rewards |-> Len(rewards), missing |-> Len(missing_rewards)]
    /\ exported' = FALSE
    /\ prev' = [identity |-> identity, oracle |-> oracle, completed |-> pc = "done",
                csv |-> csv[identity], interrupted |-> pc = "killed",
                unwritten |-> IF pc = "killed" /\ Len(rewards) = start.rewards
                              THEN {new_records[i].epoch : i \in 1..Len(new_records)}
                              ELSE {}]
    /\ payload' = <<>>
    /\ UNCHANGED <<store_vars, faults, derive_vars>>

\* Lines 154-157: create_tables (CREATE TABLE IF NOT EXISTS keeps the rows
\* the tables hold), new_records = [] and the start of the range.
CreateTables ==
    /\ pc = "create"
    /\ pc' = "loop"
    /\ epoch' = start_epoch
    /\ new_records' = <<>>
    /\ UNCHANGED <<store_vars, faults, identity, end_epoch,
                   epoch_data, conn, hist_vars, derive_vars>>

\* Lines 157-159: one iteration's existence check; "continue" when the pair
\* is known, the fetch otherwise.  The query may raise (query_fails).
LoopCheck(query_fails) ==
    /\ pc = "loop"
    /\ epoch <= end_epoch
    /\ query_fails => faults < MaxFaults
    /\ faults' = IF query_fails THEN faults + 1 ELSE faults
    /\ examined' = Append(examined, epoch)
    /\ lookup_failed' = query_fails
    /\ IF check_epoch_exists(rewards, missing_rewards, identity, epoch, query_fails)
       THEN /\ epoch' = epoch + 1
            /\ pc' = "loop"
       ELSE /\ epoch' = epoch
            /\ pc' = "fetch"
    /\ UNCHANGED <<store_vars, identity, end_epoch,
                   new_records, epoch_data, conn, run, oracle, requests, handled,
                   start, exported, abort_cause, prev, payload, derive_vars>>

\* Line 157: the range is exhausted.
LoopExit ==
    /\ pc = "loop"
    /\ epoch > end_epoch
    /\ pc' = "insert"
    /\ lookup_failed' = FALSE
    /\ UNCHANGED <<store_vars, faults, identity, end_epoch,
                   epoch, new_records, epoch_data, conn, run, oracle, examined,
                   requests, handled, start, exported, abort_cause, prev, payload,
                   derive_vars>>

\* How a response is recorded in the request log: a list by whether it
\* holds an entry of the identity ("present", "absent"), a payload that is no
\* list of objects as "malformed", any other failure as "failed".
ResponseClass(response, id) ==
    IF response.kind = "malformed" THEN "malformed"
    ELSE IF response.kind # "list" THEN "failed"
    ELSE IF \E i \in 1..Len(response.data) : response.data[i].identity_pubkey = id
         THEN "present"
         ELSE "absent"

\* Lines 161-162: the request to the rewards API.  An exception get_epoch
\* does not catch leaves main() through "finally: conn.close()".
Fetch(response) ==
    /\ pc = "fetch"
    /\ LET result == get_epoch(identity, epoch, response)
       IN  /\ requests' = Append(requests,
                    [epoch |-> epoch,
                     response |-> ResponseClass(response, identity),
                     result |-> result.t,
                     resolved |-> Resolved(rewards, missing_rewards, identity, epoch),
                     lookup_failed |-> lookup_failed,
                     slept |-> FALSE])
           /\ epoch_data' = result
           /\ pc' = IF result.t = "raise" THEN "aborted" ELSE "handle"
           /\ conn' = IF result.t = "raise" THEN "closed" ELSE conn
           /\ abort_cause' = IF result.t = "raise" THEN "fetch" ELSE abort_cause
    /\ lookup_failed' = FALSE
    /\ payload' = response.data
    /\ UNCHANGED <<store_vars, faults, identity, end_epoch,
                   epoch, new_records, run, oracle, examined, handled, start,
                   exported, prev, derive_vars>>

\* Handle with a fault: the record is written to rewards at once, inside the
\* loop, as well as kept for the bulk insert.
HandleWritesRecordAtOnce ==
    /\ pc = "handle"
    /\ IF epoch_data.t = "record"
       THEN /\ new_records' = Append(new_records, epoch_data.v)
            /\ rewards' = Append(rewards, epoch_data.v)
            /\ missing_rewards' = missing_rewards
       ELSE /\ new_records' = new_records
            /\ rewards' = rewards
            /\ missing_rewards' = Append(missing_rewards, MissingRow(epoch, identity))
    /\ pc' = "sleep"
    /\ handled' = handled + 1
    /\ payload' = <<>>
    /\ UNCHANGED <<csv, faults, identity, end_epoch, epoch, epoch_data, conn,
                   run, oracle, examined, requests, lookup_failed, start, exported,
                   abort_cause, prev, derive_vars>>

\* Handle with a fault: time.sleep is reached after a record only; after a
\* missing marker the loop goes on to the next epoch at once.
HandleSleepsAfterRecordOnly ==
    /\ pc = "handle"
    /\ IF epoch_data.t = "record"
       THEN /\ new_records' = Append(new_records, epoch_data.v)
            /\ missing_rewards' = missing_rewards
            /\ pc' = "sleep"
            /\ epoch' = epoch
       ELSE /\ new_records' = new_records
            /\ missing_rewards' = Append(missing_rewards, MissingRow(epoch, identity))
            /\ pc' = "loop"
            /\ epoch' = epoch + 1
    /\ handled' = handled + 1
    /\ payload' = <<>>
    /\ UNCHANGED <<rewards, csv, faults, identity, end_epoch, epoch_data, conn,
                   run, oracle, examined, requests, lookup_failed, start, exported,
                   abort_cause, prev, derive_vars>>

\* Lines 164-171: the record joins the batch, or the missing marker is
\* written at once.
Handle ==
    /\ pc = "handle"
    /\ IF epoch_data.t = "record"
       THEN /\ new_records' = Append(new_records, epoch_data.v)
            /\ missing_rewards' = missing_rewards
       ELSE /\ new_records' = new_records
            /\ missing_rewards' = Append(missing_rewards, MissingRow(epoch, identity))
    /\ pc' = "sleep"
    /\ handled' = handled + 1
    /\ payload' = <<>>
    /\ UNCHANGED <<rewards, csv, faults, identity, end_epoch, epoch, epoch_data, conn,
                   run, oracle, examined, requests, lookup_failed, start, exported,
                   abort_cause, prev, derive_vars>>

\* Sleep with a fault: the loop does not advance to the next epoch.
SleepSameEpoch ==
    /\ pc = "sleep"
    /\ pc' = "loop"
    /\ requests' = [requests EXCEPT ![Len(requests)].slept = TRUE]
    /\ UNCHANGED <<store_vars, faults, identity, end_epoch, epoch,
                   new_records, epoch_data, conn, run, oracle, examined, handled,
                   lookup_failed, start, exported, abort_cause, prev, payload,
                   derive_vars>>

\* Line 174: time.sleep(1), then the next epoch of the range.
Sleep ==
    /\ pc = "sleep"
    /\ pc' = "loop"
    /\ epoch' = epoch + 1
    /\ requests' = [requests EXCEPT ![Len(requests)].slept = TRUE]
    /\ UNCHANGED <<store_vars, faults, identity, end_epoch,
                   new_records, epoch_data, conn, run, oracle, examined, handled,
                   lookup_failed, start, exported, abort_cause, prev, payload,
                   derive_vars>>

\* Lines 176-190: the bulk insert of the batch, if there is one.
BulkInsert ==
    /\ pc = "insert"
    /\ rewards' = rewards \o new_records
    /\ pc' = "export"
    /\ UNCHANGED <<missing_rewards, csv, faults, identity,
                   end_epoch, epoch, new_records, epoch_data, conn, hist_vars,
                   derive_vars>>

\* Lines 192-200: the COPY to "<identity>.csv", then conn.close().
Export ==
    /\ pc = "export"
    /\ \E rows \in ExportRows(rewards, identity) :
          csv' = [csv EXCEPT ![identity] = [written |-> TRUE, rows |-> rows]]
    /\ exported' = TRUE
    /\ conn' = "closed"
    /\ pc' = "done"
    /\ UNCHANGED <<rewards, missing_rewards, faults, identity,
                   end_epoch, epoch, new_records, epoch_data, run, oracle, examined,
                   requests, handled, lookup_failed, start, abort_cause, prev, payload,
                   derive_vars>>

\* StoreFault with a fault: the exception leaves main() past the handle,
\* as it would without the finally clause.
StoreFaultWithoutClose ==
    /\ \/ pc \in {"create", "export"}
       \/ pc = "handle" /\ epoch_data.t # "record"
       \/ pc = "insert" /\ new_records # <<>>
    /\ faults < MaxFaults
    /\ faults' = faults + 1
    /\ pc' = "aborted"
    /\ abort_cause' = "store"
    /\ payload' = <<>>
    /\ UNCHANGED <<store_vars, identity, end_epoch,
                   epoch, new_records, epoch_data, conn, run, oracle, examined,
                   requests, handled, lookup_failed, start, exported, prev,
                   derive_vars>>

\* A statement on the store raises (create_tables, the INSERT of a missing
\* marker, the bulk insert, the COPY): main() is left through the finally
\* clause of lines 199-200.
StoreFault ==
    /\ \/ pc \in {"create", "export"}
       \/ pc = "handle" /\ epoch_data.t # "record"
       \/ pc = "insert" /\ new_records # <<>>
    /\ faults < MaxFaults
    /\ faults' = faults + 1
    /\ pc' = "aborted"
    /\ abort_cause' = "store"
    /\ conn' = "closed"
    /\ payload' = <<>>
    /\ UNCHANGED <<store_vars, identity, end_epoch,
                   epoch, new_records, epoch_data, run, oracle, examined, requests,
                   handled, lookup_failed, start, exported, prev, derive_vars>>

\* The process is interrupted (killed) part-way: what is in the store stays,
\* the batch in memory is lost.
Interrupt ==
    /\ pc \notin NotRunning
    /\ faults < MaxFaults
    /\ faults' = faults + 1
    /\ pc' = "killed"
    /\ abort_cause' = "killed"
    /\ lookup_failed' = FALSE
    /\ payload' = <<>>
    /\ UNCHANGED <<store_vars, identity, end_epoch,
                   epoch, new_records, epoch_data, conn, run, oracle, examined,
                   requests, handled, start, exported, prev, derive_vars>>

Next ==
    \/ \E id \in Identities, outcome \in OracleOutcomes : Main(id, outcome)
    \/ CreateTables
    \/ \E query_fails \in BOOLEAN : LoopCheck(query_fails)
    \/ LoopExit
    \/ \E response \in Responses : Fetch(response)
    \/ Handle
    \/ Sleep
    \/ BulkInsert
    \/ Export
    \/ StoreFault
    \/ Interrupt

Spec == Init /\ [][Next]_vars

\* ------------------------------------------------------------------------
\* The derivation on its own: get_epoch applied to one payload entry drawn
\* from a set of raw amounts with digits below the ninth decimal.
\* ------------------------------------------------------------------------

\* Digits below the ninth decimal (in tenths of 10^-9) of the raw amounts:
\* none, below the half, the half, above the half.
SubDigits == {0, 4, 5, 6}

SmallAmounts == {Num(0, n, t * BPS_DIVISOR) : n \in 0..MaxNano, t \in SubDigits}

\* The amounts below 10^-9, and 10^-9 itself.
FineAmounts == {Num(0, 0, t * BPS_DIVISOR) : t \in SubDigits} \cup {Num(0, 1, 0)}

\* The payload of the worked example of section 8 of the specification.
ExampleValidator ==
    Validator("A", JInt(5), JNum(Num(1000000000, 0, 0)), JNum(Num(50000000, 0, 0)),
              JNum(Num(2000000000, 0, 0)), JNum(Num(10000000, 0, 0)))

\* A payload field that is present with the value i (x), null, or missing.
IntField(k, i) == IF k = "num" THEN JInt(i) ELSE IF k = "null" THEN JNullI ELSE JMissingI
NumField(k, x) == IF k = "num" THEN JNum(x) ELSE IF k = "null" THEN JNullN ELSE JMissingN

FieldKinds == {"num", "null", "missing"}

\* Entries with present, null and missing numeric fields: k1 is the kind of
\* the seven fields get_epoch reads with "or 0" (lines 49-56 and 71), k2 the
\* kind of the four it reads with .get(key, 0) alone (lines 79-82).
NullableInputs ==
    {[ identity_pubkey |-> "A", name |-> JStr("v"),
       commission |-> IntField(k1, 5), mev_commission |-> IntField(k1, 800),
       rewards |-> NumField(k1, Num(1, 0, 0)),
       mev_to_validator |-> NumField(k1, Num(0, 1, 0)),
       total_inflation_reward |-> NumField(k1, Num(100, 0, 0)),
       vote_cost |-> NumField(k1, Num(0, 1, 0)),
       activated_stake |-> IntField(k1, 7),
       leader_slots |-> IntField(k2, 4), skip_rate |-> NumField(k2, Num(0, 1, 0)),
       votes_cast |-> IntField(k2, 9),
       stake_percentage |-> NumField(k2, Num(0, 1, 0)) ] :
        k1 \in FieldKinds, k2 \in FieldKinds}

\* The full commission goes with the small inflation rewards only, so that
\* every sum stays within TLC's integers.
DeriveInputs ==
    NullableInputs \cup
    {Validator("A", c, JNum(r), JNum(m), JNum(t), JNum(v)) :
        c \in {JInt(0), JInt(5), JNullI},
        r \in SmallAmounts \cup {ExampleValidator.rewards.v},
        m \in FineAmounts \cup {ExampleValidator.mev_to_validator.v},
        t \in SmallAmounts \cup {ExampleValidator.total_inflation_reward.v},
        v \in FineAmounts \cup {ExampleValidator.vote_cost.v}}
    \cup
    {Validator("A", JInt(100), JNum(r), JNum(m), JNum(t), JNum(v)) :
        r \in SmallAmounts \cup {ExampleValidator.rewards.v},
        m \in FineAmounts \cup {ExampleValidator.mev_to_validator.v},
        t \in SmallAmounts,
        v \in FineAmounts \cup {ExampleValidator.vote_cost.v}}

InitDerive ==
    /\ InitDriver
    /\ raw \in DeriveInputs
    /\ derived = ReturnedNone

\* get_epoch(identity, 600) on a response whose only entry is raw.
Derive ==
    /\ derived.t = "none"
    /\ derived' = get_epoch(raw.identity_pubkey, start_epoch,
                            [kind |-> "list", data |-> <<raw>>])
    /\ UNCHANGED <<store_vars, faults, proc_vars, hist_vars, raw>>

NextDerive == Derive

SpecDerive == InitDerive /\ [][NextDerive]_vars

\* ------------------------------------------------------------------------
\* C4
\* ------------------------------------------------------------------------

\* The three equalities of C4 between the stored fields of a record.
StoredFieldsAgree(r) ==
    /\ r.base_revenue = round_9(Add(r.block_rewards, r.inflation_rewards))
    /\ r.total_revenue = round_9(Add(r.base_revenue, r.mev_to_validator))
    /\ r.net_earnings = round_9(Sub(r.total_revenue, r.vote_cost))

\* At most nine fractional digits: nothing below the ninth decimal.
NineDigits(j) == OrZeroN(Get(j, JNum(Zero))).s = 0

RawCommission == IF raw.commission.t = "num" THEN raw.commission.v ELSE 0

\* For a raw total_inflation_reward below 10^-9 * (MaxNano + 1): the count
\* of 10^-9 units nearest to total_inflation_reward * bps / 10000, stated on
\* integers.  x is the raw amount in tenths of 10^-9, so the exact product
\* is x * bps / 100000 units; R is within half a unit of it, and even at the
\* half.
NearestNano(R, x, bps) ==
    LET den == 10 * BPS_DIVISOR
        diff == R * den - x * bps
    IN  /\ 2 * diff <= den
        /\ 2 * diff >= -den
        /\ (2 * diff = den \/ 2 * diff = -den) => R % 2 = 0

\* C5: commission_bps = commission * 100; inflation_rewards is
\* total_inflation_reward * commission_bps / 10000 of the raw inputs rounded
\* to nine decimals; and the worked example gives 500, 100000000, 1100000000,
\* 1150000000 and 1140000000.
C5_CommissionAndInflation ==
    derived.t = "record" =>
        LET r == derived.v
            tir == raw.total_inflation_reward.v
        IN  /\ r.commission_bps = RawCommission * 100
            /\ r.inflation_rewards.s = 0
            /\ tir.w = 0 =>
                  /\ r.inflation_rewards.w = 0
                  /\ NearestNano(r.inflation_rewards.n,
                                 tir.n * 10 + (tir.s \div BPS_DIVISOR),
                                 RawCommission * 100)
            /\ raw = ExampleValidator =>
                  /\ r.commission_bps = 500
                  /\ r.inflation_rewards = Num(100000000, 0, 0)
                  /\ r.base_revenue = Num(1100000000, 0, 0)
                  /\ r.total_revenue = Num(1150000000, 0, 0)
                  /\ r.net_earnings = Num(1140000000, 0, 0)

\* The record of the worked example.
C5_Witness ==
    /\ derived.t = "record"
    /\ raw = ExampleValidator
    /\ derived.v.inflation_rewards = Num(100000000, 0, 0)

\* ------------------------------------------------------------------------
\* Vocabulary of the driver's claims
\* ------------------------------------------------------------------------

\* The epochs the model's oracle can make a run process.
Epochs == start_epoch .. (start_epoch + MaxAhead)

\* The two tables as they were when this run began (rows are only appended).
RewardsAtStart == SubSeq(rewards, 1, start.rewards)
MissingAtStart == SubSeq(missing_rewards, 1, start.missing)

ResolvedAtStart(ep) == Resolved(RewardsAtStart, MissingAtStart, identity, ep)

RequestEpochs == {requests[i].epoch : i \in 1..Len(requests)}
ExaminedEpochs == {examined[i] : i \in 1..Len(examined)}

\* No pair with two rows in a table.
NoDuplicates(table) ==
    \A i, j \in 1..Len(table) :
        (table[i].epoch = table[j].epoch /\ table[i].identity = table[j].identity)
            => i = j

\* table is a prefix of table_after.
IsPrefix(table, table_after) ==
    /\ Len(table) <= Len(table_after)
    /\ SubSeq(table_after, 1, Len(table)) = table

\* The failures of a rewards fetch, as the request log records them.
FetchFailures == {"failed", "malformed"}

\* ------------------------------------------------------------------------
\* C1
\* ------------------------------------------------------------------------

\* This run and the one before it both ran to completion, for the same
\* identity and the same current epoch.
SecondOfTwoRuns ==
    /\ pc = "done"
    /\ prev.completed
    /\ prev.identity = identity
    /\ prev.oracle = oracle

\* C1: when main() has run to completion twice in a row for the same identity
\* and the same current epoch, the second run issued no fetch for an epoch the
\* first run resolved, added no row to either table, left no pair duplicated
\* in either table and exported the CSV rows the first run exported.
C1_SecondRunIdempotent ==
    SecondOfTwoRuns =>
        /\ \A i \in 1..Len(requests) : ~requests[i].resolved
        /\ Len(rewards) = start.rewards
        /\ Len(missing_rewards) = start.missing
        /\ NoDuplicates(rewards)
        /\ NoDuplicates(missing_rewards)
        /\ csv[identity] = prev.csv

\* ------------------------------------------------------------------------
\* C2
\* ------------------------------------------------------------------------

\* C2: with current epoch E from the oracle, the epochs main() checks are
\* 600, 601, ... in ascending order, all within [600, E-1]; every request to
\* the rewards API is for an epoch of [600, E-1]; and when the loop has ended
\* every epoch of [600, E-1] has been examined.  Without an epoch from the
\* oracle nothing is checked or fetched.
C2_RangeCorrect ==
    /\ oracle.t # "int" => (examined = <<>> /\ requests = <<>>)
    /\ oracle.t = "int" =>
          /\ \A i \in 1..Len(examined) :
                /\ examined[i] = 600 + (i - 1)
                /\ examined[i] <= oracle.v - 1
          /\ \A i \in 1..Len(requests) :
                /\ requests[i].epoch >= 600
                /\ requests[i].epoch <= oracle.v - 1
          /\ pc \in {"insert", "export", "done"} =>
                ExaminedEpochs = 600 .. (oracle.v - 1)

\* A completed run over the two epochs 600 and 601 that fetched both.
C2_Witness ==
    /\ pc = "done"
    /\ oracle = OracleInt(602)
    /\ examined = <<600, 601>>
    /\ RequestEpochs = {600, 601}

\* ------------------------------------------------------------------------
\* C3
\* ------------------------------------------------------------------------

\* C3: in every reachable store state no (epoch, identity) pair is in both
\* rewards and missing_rewards.
C3_MutuallyExclusive ==
    \A id \in Identities, ep \in Epochs :
        ~(Count(rewards, ep, id) > 0 /\ Count(missing_rewards, ep, id) > 0)

\* ------------------------------------------------------------------------
\* C6
\* ------------------------------------------------------------------------

\* C6: for every epoch that was unresolved when it was fetched and whose
\* response held no entry of the run's identity, from the moment the result
\* is handled to the end of the run the store holds exactly one
\* missing_rewards row and no rewards row for (epoch, identity); a run that
\* completes has handled every request.
C6_AbsentIdentityGivesOneMarker ==
    /\ \A i \in 1..Len(requests) :
          (requests[i].response = "absent" /\ ~requests[i].resolved /\ i <= handled)
              => /\ Count(missing_rewards, requests[i].epoch, identity) = 1
                 /\ Count(rewards, requests[i].epoch, identity) = 0
    /\ pc \in {"insert", "export", "done"} => handled = Len(requests)

\* A completed run with a response that held only another identity's entry,
\* beside an epoch for which a record was inserted.
C6_Witness ==
    /\ pc = "done"
    /\ \E i \in 1..Len(requests) :
          /\ requests[i].response = "absent"
          /\ ~requests[i].resolved
          /\ Count(missing_rewards, requests[i].epoch, identity) = 1
    /\ \E i \in 1..Len(requests) : requests[i].response = "present"
    /\ Len(rewards) > start.rewards

\* ------------------------------------------------------------------------
\* C7
\* ------------------------------------------------------------------------

\* A step that issues a request to the rewards API.
FetchStep == Len(requests') = Len(requests) + 1

\* Rows are only appended: every row stays, in its table, as it was written.
AppendOnlyStep ==
    /\ IsPrefix(rewards, rewards')
    /\ IsPrefix(missing_rewards, missing_rewards')

\* C7 as stated: no row of rewards or missing_rewards is ever updated or
\* deleted, a resolved pair stays in its table, and no fetch is issued for a
\* pair that is already resolved.
C7_NeverRefetched ==
    [][/\ AppendOnlyStep
       /\ FetchStep => ~Resolved(rewards, missing_rewards, identity, epoch)]_vars

\* C7 as amended: no row of rewards or missing_rewards is ever updated or
\* deleted, a resolved pair stays in its table, and a fetch is issued for an
\* already resolved pair only when the query of check_epoch_exists for that
\* pair raised in that run.
C7_RefetchedOnlyAfterFailedLookup ==
    [][/\ AppendOnlyStep
       /\ FetchStep =>
            (Resolved(rewards, missing_rewards, identity, epoch) => lookup_failed)]_vars

\* A later run that skipped one resolved pair and, after a failed lookup,
\* fetched another resolved pair again.
C7_Witness ==
    /\ run >= 2
    /\ \E i \in 1..Len(requests) : requests[i].resolved /\ requests[i].lookup_failed
    /\ \E ep \in ExaminedEpochs : ep \notin RequestEpochs /\ ResolvedAtStart(ep)

\* ------------------------------------------------------------------------
\* C8
\* ------------------------------------------------------------------------

\* Nothing was fetched, written or exported by this run.
RunDidNothing ==
    /\ requests = <<>>
    /\ Len(rewards) = start.rewards
    /\ Len(missing_rewards) = start.missing
    /\ ~exported

\* C8: when get_current_solana_epoch returns absent, main() aborts without a
\* fetch, a written row or an export; and an absent epoch is the only outcome
\* of the oracle or of a fetch that aborts the run.
C8_OnlyAbsentEpochAborts ==
    /\ (run > 0 /\ oracle.t = "none") => (pc = "aborted" /\ RunDidNothing)
    /\ abort_cause \in {"oracle", "fetch"} => oracle.t = "none"

\* ------------------------------------------------------------------------
\* C9
\* ------------------------------------------------------------------------

\* C9: every failure of a rewards fetch makes get_epoch return absent, a
\* missing_rewards row is written for the epoch when the result is handled,
\* and no run is left with an exception because of a fetch.
C9_FetchFailureNeverAborts ==
    /\ \A i \in 1..Len(requests) :
          requests[i].response \in FetchFailures =>
              /\ requests[i].result = "none"
              /\ i <= handled => Count(missing_rewards, requests[i].epoch, identity) >= 1
    /\ abort_cause # "fetch"

\* ------------------------------------------------------------------------
\* C10
\* ------------------------------------------------------------------------

\* C10: when the query of check_epoch_exists raises, the driver goes on to
\* fetch that epoch; and every epoch the loop has passed without a fetch was
\* resolved in the store when the run began.
C10_FailedLookupFetches ==
    /\ lookup_failed =>
          /\ pc = "fetch"
          /\ examined # <<>>
          /\ examined[Len(examined)] = epoch
    /\ \A ep \in ExaminedEpochs :
          (ep < epoch /\ ep \notin RequestEpochs) => ResolvedAtStart(ep)

\* A completed run that fetched one epoch after its lookup failed and
\* skipped another, resolved one.
C10_Witness ==
    /\ pc = "done"
    /\ \E i \in 1..Len(requests) : requests[i].lookup_failed
    /\ \E ep \in ExaminedEpochs : ep \notin RequestEpochs /\ ResolvedAtStart(ep)

\* ------------------------------------------------------------------------
\* C11
\* ------------------------------------------------------------------------

\* C11: when a failed existence lookup makes the run fetch a pair that is
\* already resolved in the store, the store's content for that pair stays as
\* it was when the run began: no second row for the pair in rewards or in
\* missing_rewards, and no row for it in the other table.
C11_RefetchLeavesPairAsItWas ==
    \A i \in 1..Len(requests) :
        (requests[i].resolved /\ requests[i].lookup_failed) =>
            /\ Count(rewards, requests[i].epoch, identity)
                  = Count(RewardsAtStart, requests[i].epoch, identity)
            /\ Count(missing_rewards, requests[i].epoch, identity)
                  = Count(MissingAtStart, requests[i].epoch, identity)

\* ------------------------------------------------------------------------
\* C12
\* ------------------------------------------------------------------------

\* Number of positions of a sequence of rows that hold the row r.
Occurrences(rows, r) == Cardinality({i \in 1..Len(rows) : rows[i] = r})

RowsOf(rows) == {rows[i] : i \in 1..Len(rows)}

\* C12: at the end of every run that completes, the file of the run's
\* identity has been written by this run and holds exactly the rewards rows
\* of that identity, each as often as the table holds it, rows of earlier
\* runs included and other identities' rows excluded, in ascending epoch
\* order whatever the insertion order, also when the run inserted nothing.
C12_ExportIsIdentityHistoryAscending ==
    pc = "done" =>
        /\ exported
        /\ csv[identity].written
        /\ LET rows == csv[identity].rows
           IN  /\ \A r \in RowsOf(rows) : r.identity = identity
               /\ \A r \in RowsOf(rows) \cup RowsOf(rewards) :
                      Occurrences(rows, r) =
                          IF r.identity = identity THEN Occurrences(rewards, r) ELSE 0
               /\ \A i, j \in 1..Len(rows) : i < j => rows[i].epoch <= rows[j].epoch

\* The rows of epochs 601 and 600 were inserted in that order, the first by
\* an earlier run; the file has epoch 600 before epoch 601.
C12_Witness ==
    /\ pc = "done"
    /\ start.rewards = 1
    /\ Len(rewards) = 2
    /\ rewards[1].epoch = 601
    /\ rewards[2].epoch = 600
    /\ Len(csv[identity].rows) = 2
    /\ csv[identity].rows[1] = rewards[2]
    /\ csv[identity].rows[2] = rewards[1]

\* ------------------------------------------------------------------------
\* C13
\* ------------------------------------------------------------------------

NullOrMissing(j) == j.t \in {"null", "missing"}

\* C13: for each of the eleven numeric fields of the matched entry, when the
\* field is missing or null in the payload the corresponding value of the
\* record returned by get_epoch is zero.
C13_NullOrMissingIsZero ==
    derived.t = "record" =>
        LET r == derived.v
        IN  /\ NullOrMissing(raw.commission) => r.commission_bps = 0
            /\ NullOrMissing(raw.mev_commission) => r.mev_commission_bps = 0
            /\ NullOrMissing(raw.rewards) => r.block_rewards = Zero
            /\ NullOrMissing(raw.mev_to_validator) => r.mev_to_validator = Zero
            /\ NullOrMissing(raw.total_inflation_reward) => r.inflation_rewards = Zero
            /\ NullOrMissing(raw.vote_cost) => r.vote_cost = Zero
            /\ NullOrMissing(raw.activated_stake) => r.activated_stake = 0
            /\ NullOrMissing(raw.leader_slots) => r.leader_slots = JInt(0)
            /\ NullOrMissing(raw.skip_rate) => r.skip_rate = JNum(Zero)
            /\ NullOrMissing(raw.votes_cast) => r.votes_cast = JInt(0)
            /\ NullOrMissing(raw.stake_percentage) => r.stake_percentage = JNum(Zero)

\* ------------------------------------------------------------------------
\* C14
\* ------------------------------------------------------------------------

\* C14: every step that takes the process out of main() after the store was
\* opened (the end of the export, or an exception during schema creation,
\* the loop, the bulk insert or the export) closes the open handle in that
\* step; the handle changes in no other way than by duckdb.connect at the
\* start of a run and by that one close, so it is closed exactly once.
C14_StoreHandleReleased ==
    [][/\ (pc' \in {"done", "aborted"} /\ pc \notin NotRunning)
            => (conn = "open" /\ conn' = "closed")
       /\ conn' # conn =>
            \/ conn' = "open" /\ pc' = "create"
            \/ conn' = "unopened" /\ pc' = "aborted" /\ abort_cause' = "oracle"
            \/ /\ conn = "open"
               /\ conn' = "closed"
               /\ pc \notin NotRunning
               /\ pc' \in {"done", "aborted"}]_vars

\* The INSERT of a missing marker raised inside the loop and the run was
\* left with the handle closed.
C14_Witness ==
    /\ pc = "aborted"
    /\ abort_cause = "store"
    /\ epoch_data.t = "none"
    /\ Len(requests) = handled + 1
    /\ conn = "closed"

\* ------------------------------------------------------------------------
\* C15
\* ------------------------------------------------------------------------

\* Number of requests of this run whose result has been handled and was of
\* the given kind ("record" or "none").
HandledWith(kind) ==
    Cardinality({i \in 1..handled : requests[i].result = kind})

BeforeBulkInsert == {"create", "loop", "fetch", "handle", "sleep", "insert"}

\* C15: while the loop of a run is running, and up to the bulk insert, the
\* rewards table is as it was at run start and the fetched records are in
\* new_records only; after the bulk insert rewards is the table of run start
\* followed by all of new_records; every handled result without a record
\* has its missing_rewards row in the store before the next epoch is
\* examined; and a run interrupted inside the loop leaves rewards as at run
\* start and every marker written so far in missing_rewards.
C15_DeferredBatchImmediateMarker ==
    /\ pc \in BeforeBulkInsert =>
          /\ Len(rewards) = start.rewards
          /\ Len(new_records) = HandledWith("record")
    /\ pc \in {"export", "done"} => rewards = RewardsAtStart \o new_records
    /\ Len(missing_rewards) = start.missing + HandledWith("none")
    /\ pc \in {"loop", "fetch"} => handled = Len(requests)
    /\ (pc = "killed" /\ epoch <= end_epoch) => Len(rewards) = start.rewards

\* A run killed inside the loop after it fetched a record and wrote a
\* marker: the marker is in the store, the record is not.
C15_Witness ==
    /\ pc = "killed"
    /\ epoch <= end_epoch
    /\ new_records # <<>>
    /\ Len(missing_rewards) = start.missing + 1
    /\ Len(rewards) = start.rewards

\* ------------------------------------------------------------------------
\* C16
\* ------------------------------------------------------------------------

\* C16: in every run each request to the rewards API but the latest has been
\* followed by the sleep of line 174, so that a sleep lies between any two
\* consecutive requests; and whenever the loop goes on to the next epoch, or
\* has ended, every request has been followed by its sleep, whether the
\* fetch gave a record, gave none, or failed.
C16_SleepAfterEveryFetch ==
    /\ \A i \in 1..Len(requests) : i < Len(requests) => requests[i].slept
    /\ pc \in {"loop", "fetch", "insert", "export", "done"} =>
          \A i \in 1..Len(requests) : requests[i].slept

\* A completed run with a fetch that gave a record and a fetch that failed,
\* each followed by its sleep.
C16_Witness ==
    /\ pc = "done"
    /\ \E i \in 1..Len(requests) :
          requests[i].result = "record" /\ requests[i].slept
    /\ \E i \in 1..Len(requests) :
          requests[i].response = "failed" /\ requests[i].slept

\* ------------------------------------------------------------------------
\* C17
\* ------------------------------------------------------------------------

\* The run before this one was interrupted, and this run, for the same
\* identity, ran to completion.
RecoveredFromInterruption ==
    /\ pc = "done"
    /\ prev.interrupted
    /\ prev.identity = identity

\* C17: when main() has run to completion with current epoch E after an
\* interrupted run, every epoch of [600, E-1] is resolved for the identity,
\* the epochs of the records the interrupted run had fetched and not written
\* have been fetched again, and no pair has two rows in a table.
C17_RecoveryAfterInterruption ==
    RecoveredFromInterruption =>
        /\ \A ep \in 600 .. (oracle.v - 1) :
              Resolved(rewards, missing_rewards, identity, ep)
        /\ \A ep \in prev.unwritten : ep <= oracle.v - 1 => ep \in RequestEpochs
        /\ NoDuplicates(rewards)
        /\ NoDuplicates(missing_rewards)

\* ------------------------------------------------------------------------
\* C18
\* ------------------------------------------------------------------------

\* C18: within one run the epochs are examined in strictly ascending order
\* and the requests are for strictly ascending epochs, each an examined one
\* (so no epoch is examined or requested twice); when the loop has ended
\* every epoch of the range has been examined exactly once; and a request is
\* issued only when the result of every earlier request has been handled.
C18_SequentialAscending ==
    /\ \A i, j \in 1..Len(examined) : i < j => examined[i] < examined[j]
    /\ \A i, j \in 1..Len(requests) : i < j => requests[i].epoch < requests[j].epoch
    /\ RequestEpochs \subseteq ExaminedEpochs
    /\ pc \in {"insert", "export", "done"} =>
          \A ep \in start_epoch .. end_epoch :
              Cardinality({i \in 1..Len(examined) : examined[i] = ep}) = 1
    /\ handled <= Len(requests)
    /\ Len(requests) <= handled + 1
    /\ pc \in {"loop", "fetch"} => handled = Len(requests)

\* The driver is about to request epoch 601; the result of the request for
\* epoch 600 has been handled.
C18_Witness ==
    /\ pc = "fetch"
    /\ epoch = 601
    /\ examined = <<600, 601>>
    /\ Len(requests) = 1
    /\ requests[1].epoch = 600
    /\ handled = 1

\* ------------------------------------------------------------------------
\* C19
\* ------------------------------------------------------------------------

Matches(entry) == entry.identity_pubkey = identity

\* C19: when the response in hand holds entries of the requested identity,
\* what get_epoch returned is the record derived from the first of them in
\* response order, whatever entries of that identity come after it; and the
\* batch of a run holds at most one record per epoch.
C19_FirstMatchWins ==
    /\ (pc = "handle" /\ \E i \in 1..Len(payload) : Matches(payload[i])) =>
          \E i \in 1..Len(payload) :
              /\ Matches(payload[i])
              /\ \A j \in 1..(i - 1) : ~Matches(payload[j])
              /\ epoch_data = Returned(get_epoch_record(payload[i], epoch))
    /\ \A i, j \in 1..Len(new_records) :
          new_records[i].epoch = new_records[j].epoch => i = j

\* A response with two different entries of the requested identity: the
\* record in hand is that of the first, not that of the second.
C19_Witness ==
    /\ pc = "handle"
    /\ Len(payload) = 2
    /\ Matches(payload[1])
    /\ Matches(payload[2])
    /\ epoch_data = Returned(get_epoch_record(payload[1], epoch))
    /\ epoch_data # Returned(get_epoch_record(payload[2], epoch))

\* ------------------------------------------------------------------------
\* C20
\* ------------------------------------------------------------------------

\* The store holds a row of the run's own identity for the epoch.
OwnRow(ep) ==
    \/ \E i \in 1..Len(rewards) :
          rewards[i].epoch = ep /\ rewards[i].identity = identity
    \/ \E i \in 1..Len(missing_rewards) :
          missing_rewards[i].epoch = ep /\ missing_rewards[i].identity = identity

\* The rows a step appends to a table.
Appended(table, table_after) ==
    {table_after[i] : i \in (Len(table) + 1)..Len(table_after)}

\* The loop passes the current epoch without a fetch.
SkipStep == pc = "loop" /\ pc' = "loop" /\ epoch' = epoch + 1

\* C20: every row a run writes has the run's identity, and every row that
\* was in the store stays as it was (so other identities' rows are left
\* unchanged); and whether the run fetches an epoch depends on the rows of
\* its own identity only: it skips the epoch only when the store holds an
\* own row for it, and fetches it only when there is none or the lookup
\* failed, whatever rows other identities have for that epoch.
C20_IdentityIsolation ==
    [][/\ AppendOnlyStep
       /\ \A row \in Appended(rewards, rewards') : row.identity = identity
       /\ \A row \in Appended(missing_rewards, missing_rewards') :
             row.identity = identity
       /\ SkipStep => OwnRow(epoch)
       /\ FetchStep => (lookup_failed \/ ~OwnRow(epoch))]_vars

\* A completed run for "A" after a run for "B": epoch 600 was resolved for
\* "B" only, the run fetched it and wrote its own row, and the row of "B" is
\* where it was.
C20_Witness ==
    /\ pc = "done"
    /\ identity = "A"
    /\ prev.identity = "B"
    /\ start.rewards = 1
    /\ rewards[1].identity = "B"
    /\ rewards[1].epoch = 600
    /\ requests # <<>>
    /\ requests[1].epoch = 600
    /\ ~requests[1].lookup_failed
    /\ Len(rewards) = 2
    /\ rewards[2].identity = "A"
    /\ rewards[2].epoch = 600

====
